---- MODULE Spec2Model ----
(***************************************************************************)
(* core_affinity (src/src/lib.rs): get_core_ids() and set_for_current()    *)
(* on the five build targets (linux/android, windows, macos, freebsd and   *)
(* the stub), together with the kernel state the two calls read and write. *)
(*                                                                         *)
(* An affinity set (cpu_set_t, cpuset_t, a 64-bit mask) is the set of its  *)
(* set bit positions.  A Rust Option is a record [some, ...]; the outcome  *)
(* of a call is "None"/"Some" (get_core_ids), "true"/"false"               *)
(* (set_for_current) or "panic" (the call unwound; the library holds no    *)
(* state of its own, so the caller may catch it and go on).                *)
(***************************************************************************)
EXTENDS Integers, Sequences, FiniteSets

\* ---------------------------------------------------------------- bounds
\* Logical CPUs a modelled host may have (1..MaxCpus).
MaxCpus == 3
\* Threads of the process that call the library.
NThreads == 2
\* Bits of libc's cpu_set_t / cpuset_t (libc: 1024 on Linux, 256 on
\* FreeBSD), scaled down; always > MaxCpus.
CPU_SETSIZE == 5
\* Bits of integer_t (c_int, 32 on macOS), scaled down.
IntegerTBits == 5

\* ------------------------------------------------------- program constants
\* Bit positions windows::get_core_ids scans, the width of the u64 mask.
MaskBits == 64

Threads == 1..NThreads
Backends == {"linux", "windows", "macos", "freebsd", "stub"}

\* CoreId.id values handed to set_for_current: every core of the largest
\* host, one id past it (inside the cpu set, no such CPU), the first id past
\* the cpu set, and the first id past the 64-bit mask.
CoreIdInputs ==
    (0..MaxCpus) \cup {CPU_SETSIZE} \cup {MaskBits}

VARIABLES
    backend,          \* the cfg(target_os) the crate was built for
    overflow_checks,  \* whether the build traps arithmetic overflow (debug)
    ncpu,             \* logical CPUs of the host (num_cpus::get())
    allowed,          \* CPUs the process may use: cpuset (linux, freebsd),
                      \* process affinity mask (windows)
    thread_mask,      \* kernel: each thread's affinity set
    affinity_tag,     \* kernel (macos): each thread's affinity policy tag
    call              \* the call just made and what it returned

vars == <<backend, overflow_checks, ncpu, allowed, thread_mask, affinity_tag,
          call>>

\* ------------------------------------------------------------- helpers
Range(s) == {s[i] : i \in 1..Len(s)}

StrictlyAscending(s) == \A i \in 1..(Len(s) - 1) : s[i] < s[i + 1]

\* The Rust range lo..hi in iteration order: lo, lo + 1, .., hi - 1.
RustRange(lo, hi) == [k \in 1..(hi - lo) |-> lo + k - 1]

RECURSIVE Pow2(_)
Pow2(n) == IF n = 0 THEN 1 ELSE 2 * Pow2(n - 1)

None == [some |-> FALSE, seq |-> <<>>]
Some(s) == [some |-> TRUE, seq |-> s]

\* ------------------------------------------------- libc cpu set macros
\* mem::zeroed::<cpu_set_t>()
new_cpu_set == {}

CPU_ISSET(cpu, cpuset) == cpu \in cpuset

\* CPU_SET indexes the set's word array with cpu / word_bits: an id of
\* CPU_SETSIZE or more is out of the array's bounds and panics.
CPU_SET(cpu, cpuset) ==
    IF cpu >= CPU_SETSIZE
    THEN [panic |-> TRUE, set |-> cpuset]
    ELSE [panic |-> FALSE, set |-> cpuset \cup {cpu}]

\* ------------------------------------------------------- linux / android
\* The kernel's sched_getaffinity(0, ...): the calling thread's affinity
\* set, or an error (the caller's buffer stays zeroed).
sched_getaffinity(kmask, query_ok) ==
    IF query_ok THEN [result |-> 0, set |-> kmask]
                ELSE [result |-> -1, set |-> new_cpu_set]

\* The kernel's sched_setaffinity: the request is cut down to the CPUs the
\* process may use; an empty result is EINVAL and changes nothing.
sched_setaffinity(kmask, set, cpus_allowed) ==
    IF set \cap cpus_allowed = {}
    THEN [result |-> -1, mask |-> kmask]
    ELSE [result |-> 0, mask |-> set \cap cpus_allowed]

\* faulty variant: the call targets the whole process
linux_scope_process(t) == Threads

\* pid 0 of sched_setaffinity: the calling thread and no other.
linux_scope(t) == {t}

linux_get_affinity_mask(kmask, query_ok) ==
    LET q == sched_getaffinity(kmask, query_ok)
    IN  IF q.result = 0 THEN [some |-> TRUE, set |-> q.set]
                        ELSE [some |-> FALSE, set |-> {}]

\* for i in from..CPU_SETSIZE { if CPU_ISSET(i, &full_set) { push(i) } }
linux_scan(full_set, from) ==
    SelectSeq(RustRange(from, CPU_SETSIZE), LAMBDA i : CPU_ISSET(i, full_set))

\* faulty variant: the scan starts at bit 1
linux_get_core_ids_from1(opt_set) ==
    IF opt_set.some THEN Some(linux_scan(opt_set.set, 1)) ELSE None

\* linux::get_core_ids, given what get_affinity_mask() returned
linux_get_core_ids(opt_set) ==
    IF opt_set.some THEN Some(linux_scan(opt_set.set, 0)) ELSE None

\* faulty variant: the result test is inverted (res != 0, as the windows call needs)
linux_set_for_current_neg(core_id, t, masks, cpus_allowed) ==
    LET s == CPU_SET(core_id, new_cpu_set)
        k == sched_setaffinity(masks[t], s.set, cpus_allowed)
    IN  IF s.panic
        THEN [outcome |-> "panic", masks |-> masks, sys |-> "none"]
        ELSE [outcome |-> IF k.result # 0 THEN "true" ELSE "false",
              masks |-> [u \in Threads |->
                           IF u \in linux_scope(t) THEN k.mask ELSE masks[u]],
              sys |-> "sched_setaffinity"]

\* faulty variant: the bit is added to the thread's current set, not to a zeroed one
linux_set_for_current_add(core_id, t, masks, cpus_allowed) ==
    LET s == CPU_SET(core_id, masks[t])
        k == sched_setaffinity(masks[t], s.set, cpus_allowed)
    IN  IF s.panic
        THEN [outcome |-> "panic", masks |-> masks, sys |-> "none"]
        ELSE [outcome |-> IF k.result = 0 THEN "true" ELSE "false",
              masks |-> [u \in Threads |->
                           IF u \in linux_scope(t) THEN k.mask ELSE masks[u]],
              sys |-> "sched_setaffinity"]

\* linux::set_for_current called by thread t: the outcome and every
\* thread's affinity set afterwards.
linux_set_for_current(core_id, t, masks, cpus_allowed) ==
    LET s == CPU_SET(core_id, new_cpu_set)
        k == sched_setaffinity(masks[t], s.set, cpus_allowed)
    IN  IF s.panic
        THEN [outcome |-> "panic", masks |-> masks, sys |-> "none"]
        ELSE [outcome |-> IF k.result = 0 THEN "true" ELSE "false",
              masks |-> [u \in Threads |->
                           IF u \in linux_scope(t) THEN k.mask ELSE masks[u]],
              sys |-> "sched_setaffinity"]

\* --------------------------------------------------------------- windows
\* GetProcessAffinityMask(GetCurrentProcess(), ..): non-zero and the
\* process mask, or zero.
GetProcessAffinityMask(process_mask, query_ok) ==
    IF query_ok THEN [res |-> 1, process_mask |-> process_mask]
                ELSE [res |-> 0, process_mask |-> {}]

\* SetThreadAffinityMask(GetCurrentThread(), mask): the thread's previous
\* mask, or zero (and no change) when the mask is empty or names a
\* processor outside the process mask.
SetThreadAffinityMask(kmask, mask, process_mask) ==
    IF mask = {} \/ ~(mask \subseteq process_mask)
    THEN [res |-> {}, mask |-> kmask]
    ELSE [res |-> kmask, mask |-> mask]

\* 1 << n on a u64: a shift of 64 or more traps under overflow checks,
\* and otherwise uses the shift amount modulo 64.
shl_u64(n, checks) ==
    IF n < MaskBits THEN [panic |-> FALSE, mask |-> {n}]
    ELSE IF checks THEN [panic |-> TRUE, mask |-> {}]
    ELSE [panic |-> FALSE, mask |-> {n % MaskBits}]

\* faulty variant: the mask read is the calling thread's
windows_get_affinity_mask_thread(kernel, query_ok) ==
    LET q == GetProcessAffinityMask(kernel.thread, query_ok)
    IN  IF q.res # 0 THEN [some |-> TRUE, mask |-> q.process_mask]
                     ELSE [some |-> FALSE, mask |-> {}]

\* windows::get_affinity_mask; kernel = [process, thread]: the process
\* mask and the calling thread's mask
windows_get_affinity_mask(kernel, query_ok) ==
    LET q == GetProcessAffinityMask(kernel.process, query_ok)
    IN  IF q.res # 0 THEN [some |-> TRUE, mask |-> q.process_mask]
                     ELSE [some |-> FALSE, mask |-> {}]

\* for i in 0..64 { if (mask & (1 << i)) == (1 << i) { push(i) } }
windows_range == RustRange(0, MaskBits)

windows_scan(mask) ==
    SelectSeq(windows_range, LAMBDA i : {i} \cap mask = {i})

windows_get_core_ids(opt_mask) ==
    IF opt_mask.some THEN Some(windows_scan(opt_mask.mask)) ELSE None

\* faulty variant: success is read as "the mask changed"
windows_set_for_current_changed(core_id, kmask, process_mask, checks) ==
    LET m == shl_u64(core_id, checks)
        k == SetThreadAffinityMask(kmask, m.mask, process_mask)
    IN  IF m.panic
        THEN [outcome |-> "panic", mask |-> kmask, sys |-> "none"]
        ELSE [outcome |-> IF k.res # m.mask THEN "true" ELSE "false",
              mask |-> k.mask, sys |-> "SetThreadAffinityMask"]

\* windows::set_for_current: the outcome and the calling thread's mask
windows_set_for_current(core_id, kmask, process_mask, checks) ==
    LET m == shl_u64(core_id, checks)
        k == SetThreadAffinityMask(kmask, m.mask, process_mask)
    IN  IF m.panic
        THEN [outcome |-> "panic", mask |-> kmask, sys |-> "none"]
        ELSE [outcome |-> IF k.res # {} THEN "true" ELSE "false",
              mask |-> k.mask, sys |-> "SetThreadAffinityMask"]

\* ----------------------------------------------------------------- macos
\* core_id.id as integer_t: the low IntegerTBits bits, read as a signed
\* two's complement number.
as_integer_t(n) ==
    LET m == Pow2(IntegerTBits)
        r == n % m
    IN  IF 2 * r >= m THEN r - m ELSE r

\* thread_policy_set(.., THREAD_AFFINITY_POLICY, ..): stores the tag and
\* reports KERN_SUCCESS; the scheduler treats the tag as a hint.
thread_policy_set(ktag, tag) == [kr |-> 0, tag |-> tag]

\* faulty variant: an inclusive range, 0..=num_cpus
macos_get_core_ids_incl(num_cpus) ==
    Some(RustRange(0, num_cpus + 1))

\* macos::get_core_ids: (0..num_cpus::get()).map(|n| CoreId { id: n })
macos_get_core_ids(num_cpus) ==
    Some(RustRange(0, num_cpus))

\* macos::set_for_current: the outcome and the calling thread's tag
macos_set_for_current(core_id, ktag) ==
    LET info == [affinity_tag |-> as_integer_t(core_id)]
        k == thread_policy_set(ktag, info.affinity_tag)
    IN  [outcome |-> IF k.kr = 0 THEN "true" ELSE "false",
         tag |-> k.tag, sys |-> "thread_policy_set"]

\* --------------------------------------------------------------- freebsd
\* cpuset_getaffinity(CPU_LEVEL_WHICH, CPU_WHICH_TID, -1, ..)
cpuset_getaffinity(kmask, query_ok) ==
    IF query_ok THEN [result |-> 0, set |-> kmask]
                ELSE [result |-> -1, set |-> new_cpu_set]

\* cpuset_setaffinity(CPU_LEVEL_WHICH, CPU_WHICH_TID, -1, ..): a set that
\* shares no CPU with the thread's cpuset is refused and changes nothing.
cpuset_setaffinity(kmask, set, cpus_allowed) ==
    IF set \cap cpus_allowed = {}
    THEN [result |-> -1, mask |-> kmask]
    ELSE [result |-> 0, mask |-> set \cap cpus_allowed]

freebsd_get_affinity_mask(kmask, query_ok) ==
    LET q == cpuset_getaffinity(kmask, query_ok)
    IN  IF q.result = 0 THEN [some |-> TRUE, set |-> q.set]
                        ELSE [some |-> FALSE, set |-> {}]

\* for i in 0..CPU_SETSIZE { if CPU_ISSET(i, &full_set) { push(i) } }
freebsd_scan(full_set) ==
    SelectSeq(RustRange(0, CPU_SETSIZE), LAMBDA i : CPU_ISSET(i, full_set))

freebsd_get_core_ids(opt_set) ==
    IF opt_set.some THEN Some(freebsd_scan(opt_set.set)) ELSE None

\* faulty variant: a refused request is retried with the first CPU
freebsd_set_for_current_retry(core_id, kmask, cpus_allowed) ==
    LET s == CPU_SET(core_id, new_cpu_set)
        k == cpuset_setaffinity(kmask, s.set, cpus_allowed)
        r == cpuset_setaffinity(kmask, {0}, cpus_allowed)
    IN  IF s.panic
        THEN [outcome |-> "panic", mask |-> kmask, sys |-> "none"]
        ELSE [outcome |-> IF k.result = 0 THEN "true" ELSE "false",
              mask |-> IF k.result = 0 THEN k.mask ELSE r.mask,
              sys |-> "cpuset_setaffinity"]

\* freebsd::set_for_current: the outcome and the calling thread's set
freebsd_set_for_current(core_id, kmask, cpus_allowed) ==
    LET s == CPU_SET(core_id, new_cpu_set)
        k == cpuset_setaffinity(kmask, s.set, cpus_allowed)
    IN  IF s.panic
        THEN [outcome |-> "panic", mask |-> kmask, sys |-> "none"]
        ELSE [outcome |-> IF k.result = 0 THEN "true" ELSE "false",
              mask |-> k.mask, sys |-> "cpuset_setaffinity"]

\* ------------------------------------------------------------------ stub
\* faulty variant: an empty list instead of None
stub_get_core_ids_helper_empty == Some(<<>>)

stub_get_core_ids_helper == None

stub_set_for_current_helper(core_id) == [outcome |-> "false", sys |-> "none"]

\* ---------------------------------------------------------------- facade
\* get_core_ids() -> get_core_ids_helper(), the one compiled for the
\* target: the Option returned and the OS call made.
get_core_ids(os, t, masks, process_mask, num_cpus, query_ok) ==
    CASE os = "linux" ->
           [opt |-> linux_get_core_ids(
                        linux_get_affinity_mask(masks[t], query_ok)),
            sys |-> "sched_getaffinity"]
      [] os = "freebsd" ->
           [opt |-> freebsd_get_core_ids(
                        freebsd_get_affinity_mask(masks[t], query_ok)),
            sys |-> "cpuset_getaffinity"]
      [] os = "windows" ->
           [opt |-> windows_get_core_ids(
                        windows_get_affinity_mask(
                            [process |-> process_mask, thread |-> masks[t]],
                            query_ok)),
            sys |-> "GetProcessAffinityMask"]
      [] os = "macos" ->
           [opt |-> macos_get_core_ids(num_cpus), sys |-> "none"]
      [] OTHER ->
           [opt |-> stub_get_core_ids_helper, sys |-> "none"]

\* set_for_current() -> set_for_current_helper(): the outcome, every
\* thread's affinity set and tag afterwards, and the OS call made.
set_for_current(os, core_id, t, masks, tags, process_mask, checks) ==
    CASE os = "linux" ->
           LET r == linux_set_for_current(core_id, t, masks, process_mask)
           IN  [outcome |-> r.outcome, masks |-> r.masks, tags |-> tags,
                sys |-> r.sys]
      [] os = "freebsd" ->
           LET r == freebsd_set_for_current(core_id, masks[t], process_mask)
           IN  [outcome |-> r.outcome,
                masks |-> [masks EXCEPT ![t] = r.mask], tags |-> tags,
                sys |-> r.sys]
      [] os = "windows" ->
           LET r == windows_set_for_current(core_id, masks[t], process_mask,
                                            checks)
           IN  [outcome |-> r.outcome,
                masks |-> [masks EXCEPT ![t] = r.mask], tags |-> tags,
                sys |-> r.sys]
      [] os = "macos" ->
           LET r == macos_set_for_current(core_id, tags[t])
           IN  [outcome |-> r.outcome, masks |-> masks,
                tags |-> [tags EXCEPT ![t] = r.tag], sys |-> r.sys]
      [] OTHER ->
           LET r == stub_set_for_current_helper(core_id)
           IN  [outcome |-> r.outcome, masks |-> masks, tags |-> tags,
                sys |-> r.sys]

\* ------------------------------------------------------------ the process
\* call.query: whether the OS query of a get_core_ids() worked ("ok",
\* "err"), "none" when the call makes no query.
NoCall == [thread |-> 0, op |-> "none", id |-> 0, outcome |-> "none",
           seq |-> <<>>, sys |-> "none", query |-> "none"]

\* A host with 1..MaxCpus logical CPUs; the process may be confined to a
\* non-empty part of them (taskset, a cpuset, start /affinity) and every
\* thread starts with the process's set.  Overflow checks matter to the
\* windows shift alone.
Init ==
    /\ backend \in Backends
    /\ overflow_checks \in (IF backend = "windows" THEN BOOLEAN ELSE {FALSE})
    /\ ncpu \in 1..MaxCpus
    /\ allowed \in (IF backend \in {"linux", "freebsd", "windows"}
                    THEN (SUBSET (0..(ncpu - 1))) \ {{}}
                    ELSE {0..(ncpu - 1)})
    /\ thread_mask = [t \in Threads |-> allowed]
    /\ affinity_tag = [t \in Threads |-> 0]
    /\ call = NoCall

\* Thread t calls get_core_ids(); the OS query works or fails.
GetCoreIds(t) ==
    /\ \E query_ok \in BOOLEAN :
         LET r == get_core_ids(backend, t, thread_mask, allowed, ncpu, query_ok)
         IN  call' = [thread |-> t, op |-> "get", id |-> 0,
                      outcome |-> IF r.opt.some THEN "Some" ELSE "None",
                      seq |-> r.opt.seq, sys |-> r.sys,
                      query |-> IF r.sys = "none" THEN "none"
                                ELSE IF query_ok THEN "ok" ELSE "err"]
    /\ UNCHANGED <<backend, overflow_checks, ncpu, allowed, thread_mask,
                   affinity_tag>>

\* Thread t calls set_for_current(CoreId { id: core_id }).
SetForCurrent(t) ==
    /\ \E core_id \in CoreIdInputs :
         LET r == set_for_current(backend, core_id, t, thread_mask,
                                  affinity_tag, allowed, overflow_checks)
         IN  /\ call' = [thread |-> t, op |-> "set", id |-> core_id,
                         outcome |-> r.outcome, seq |-> <<>>, sys |-> r.sys,
                         query |-> "none"]
             /\ thread_mask' = r.masks
             /\ affinity_tag' = r.tags
    /\ UNCHANGED <<backend, overflow_checks, ncpu, allowed>>

Next == \E t \in Threads : GetCoreIds(t) \/ SetForCurrent(t)

Spec == Init /\ [][Next]_vars

\* The decode of get_core_ids() as a function of what the kernel answers:
\* the affinity query may hand back any cpu set, the empty one included.
InitDecode ==
    /\ backend \in {"linux", "freebsd"}
    /\ overflow_checks = FALSE
    /\ ncpu = MaxCpus
    /\ allowed = 0..(ncpu - 1)
    /\ \E m \in SUBSET (0..(CPU_SETSIZE - 1)) :
         thread_mask = [t \in Threads |-> m]
    /\ affinity_tag = [t \in Threads |-> 0]
    /\ call = NoCall

NextDecode == \E t \in Threads : GetCoreIds(t)

SpecDecode == InitDecode /\ [][NextDecode]_vars

\* ================================================================ claims
ReadBack == {"linux", "freebsd"}

\* What thread t would get from get_core_ids() with masks and tags as given
\* and the OS query working.
Enumerated(t, masks) ==
    get_core_ids(backend, t, masks, allowed, ncpu, TRUE).opt

\* C1: on every backend but the stub, set_for_current(id) returns true for
\* every id in the list the same thread's get_core_ids() just returned.
C1_EnumeratedIdPins ==
    [][(/\ backend # "stub"
        /\ call.op = "get" /\ call.outcome = "Some"
        /\ call'.op = "set" /\ call'.thread = call.thread
        /\ call'.id \in Range(call.seq))
       => call'.outcome = "true"]_vars

C1_Witness ==
    /\ backend = "linux"
    /\ call.op = "set" /\ call.outcome = "true"
    /\ Cardinality(allowed) > 1
    /\ thread_mask[call.thread] = {call.id}

\* C2: on linux and freebsd, when set_for_current(id) returns true the
\* calling thread's affinity set has bit id and no other bit of
\* 0..CPU_SETSIZE-1, and the thread's next get_core_ids() returns [id].
C2_ReadBack ==
    [][/\ (/\ backend \in ReadBack
           /\ call'.op = "set" /\ call'.outcome = "true")
          => /\ \A i \in 0..(CPU_SETSIZE - 1) :
                  CPU_ISSET(i, thread_mask'[call'.thread]) <=> (i = call'.id)
             /\ Enumerated(call'.thread, thread_mask') = Some(<<call'.id>>)
       /\ (/\ backend \in ReadBack
           /\ call.op = "set" /\ call.outcome = "true"
           /\ call'.op = "get" /\ call'.thread = call.thread
           /\ call'.outcome = "Some")
          => call'.seq = <<call.id>>]_vars

C2_Witness ==
    /\ backend \in ReadBack
    /\ Cardinality(allowed) > 1
    /\ call.op = "get" /\ call.outcome = "Some"
    /\ Len(call.seq) = 1
    /\ thread_mask[call.thread] = {call.seq[1]}

\* C3: on linux and freebsd get_core_ids() is decided by the affinity
\* query: None (and no list) when the query fails; otherwise a strictly
\* ascending list without duplicates that holds i exactly when bit i of the
\* thread's set is set, for i in 0..CPU_SETSIZE-1; the empty set gives an
\* empty list, not None.
C3_Decode ==
    (backend \in ReadBack /\ call.op = "get") =>
        /\ call.query = "err" => (call.outcome = "None" /\ call.seq = <<>>)
        /\ call.query = "ok" =>
             /\ call.outcome = "Some"
             /\ StrictlyAscending(call.seq)
             /\ Cardinality(Range(call.seq)) = Len(call.seq)
             /\ \A i \in 0..(CPU_SETSIZE - 1) :
                  (i \in Range(call.seq)) <=> CPU_ISSET(i, thread_mask[call.thread])
             /\ Range(call.seq) \subseteq 0..(CPU_SETSIZE - 1)
             /\ (thread_mask[call.thread] = {} => call.seq = <<>>)

C3_Witness ==
    /\ backend \in ReadBack
    /\ call.op = "get" /\ call.query = "ok" /\ call.outcome = "Some"
    /\ Len(call.seq) >= 2
    /\ call.seq[1] = 0
    /\ call.seq[2] > 1

\* C4 as stated, on a host that does not confine the process: off windows,
\* every successful get_core_ids() returns as many ids as the host has
\* logical CPUs.
C4_LengthIsCpuCount ==
    (/\ backend # "windows"
     /\ allowed = 0..(ncpu - 1)
     /\ call.op = "get" /\ call.outcome = "Some")
        => Len(call.seq) = ncpu

\* C4 as amended: on linux and freebsd a successful get_core_ids() returns
\* as many ids as the calling thread's affinity set has CPUs, which is the
\* host's logical CPU count exactly when that set is every logical CPU; on
\* macos it always returns as many ids as the host has logical CPUs.
C4_LengthIsAffinityCount ==
    (call.op = "get" /\ call.outcome = "Some") =>
        /\ backend \in ReadBack =>
             /\ Len(call.seq) = Cardinality(thread_mask[call.thread])
             /\ (Len(call.seq) = ncpu)
                  <=> (thread_mask[call.thread] = 0..(ncpu - 1))
        /\ backend = "macos" => Len(call.seq) = ncpu
        /\ backend # "stub"

C4_Witness ==
    /\ backend \in ReadBack
    /\ allowed = 0..(ncpu - 1)
    /\ call.op = "get" /\ call.outcome = "Some"
    /\ Len(call.seq) = 1
    /\ ncpu > 1

\* An id get_core_ids() cannot have produced on this host.
OutOfRange(id) ==
    IF backend = "macos" THEN id \notin 0..(ncpu - 1) ELSE id \notin allowed

\* C5: set_for_current(id) with an out-of-range id returns false: it does
\* not panic and it leaves the thread's affinity as it was.
C5_OutOfRangeFails ==
    [][(call'.op = "set" /\ OutOfRange(call'.id))
       => /\ call'.outcome = "false"
          /\ thread_mask' = thread_mask
          /\ affinity_tag' = affinity_tag]_vars

\* C6: when set_for_current(id) returns false, the calling thread's
\* affinity set and tag, and what its get_core_ids() returns, are what they
\* were before the call.
C6_FailedPinChangesNothing ==
    [][(call'.op = "set" /\ call'.outcome = "false")
       => /\ thread_mask' = thread_mask
          /\ affinity_tag' = affinity_tag
          /\ Enumerated(call'.thread, thread_mask')
               = Enumerated(call'.thread, thread_mask)]_vars

C6_Witness ==
    /\ backend = "freebsd"
    /\ call.op = "set" /\ call.outcome = "false"
    /\ thread_mask[call.thread] # allowed

\* C7: on the stub get_core_ids() returns None, set_for_current() returns
\* false, no OS call is made and no thread's affinity changes.
C7_Stub ==
    backend = "stub" =>
        /\ call.op = "get" => (call.outcome = "None" /\ call.seq = <<>>)
        /\ call.op = "set" => call.outcome = "false"
        /\ call.sys = "none"
        /\ thread_mask = [t \in Threads |-> allowed]
        /\ affinity_tag = [t \in Threads |-> 0]

C7_Witness ==
    /\ backend = "stub"
    /\ call.op = "set" /\ call.id = 0 /\ call.outcome = "false"

\* C8: a set_for_current() by one thread leaves every other thread's
\* affinity set and tag, and what get_core_ids() returns to it, unchanged.
C8_OtherThreadsUntouched ==
    [][call'.op = "set" =>
         \A u \in Threads \ {call'.thread} :
            /\ thread_mask'[u] = thread_mask[u]
            /\ affinity_tag'[u] = affinity_tag[u]
            /\ Enumerated(u, thread_mask') = Enumerated(u, thread_mask)]_vars

C8_Witness ==
    /\ backend = "linux"
    /\ call.op = "set" /\ call.outcome = "true"
    /\ Cardinality(allowed) > 1
    /\ thread_mask[call.thread] = {call.id}
    /\ \E u \in Threads \ {call.thread} : thread_mask[u] = allowed

\* C9: set_for_current(id) right after set_for_current(id) by the same
\* thread returns what the first call returned and changes no affinity set,
\* no tag and no get_core_ids() result.
C9_PinTwice ==
    [][(/\ call.op = "set" /\ call'.op = "set"
        /\ call'.thread = call.thread /\ call'.id = call.id)
       => /\ call'.outcome = call.outcome
          /\ thread_mask' = thread_mask
          /\ affinity_tag' = affinity_tag
          /\ Enumerated(call.thread, thread_mask')
               = Enumerated(call.thread, thread_mask)]_vars

C9_Witness ==
    /\ backend = "windows"
    /\ call.op = "set" /\ call.outcome = "true"
    /\ Cardinality(allowed) > 1
    /\ thread_mask[call.thread] = {call.id}

\* C10: on windows no call changes the process mask, every successful
\* get_core_ids() returns the process mask's set bits of 0..63 in ascending
\* order whatever the threads pinned, and a thread's own mask after a
\* successful pin can be a strict part of that list.
C10_EnumerateIsProcessMask ==
    [][backend = "windows" =>
         /\ allowed' = allowed
         /\ (call'.op = "get" /\ call'.outcome = "Some")
              => /\ StrictlyAscending(call'.seq)
                 /\ Range(call'.seq) = allowed \cap (0..(MaskBits - 1))
         /\ call'.op = "set"
              => Enumerated(call'.thread, thread_mask')
                   = Enumerated(call'.thread, thread_mask)]_vars

C10_Witness ==
    /\ backend = "windows"
    /\ call.op = "get" /\ call.outcome = "Some"
    /\ \E id \in Range(call.seq) :
         /\ thread_mask[call.thread] = {id}
         /\ {id} # Range(call.seq)

====
